---- MODULE Spec2Model ----
(***************************************************************************)
(* Model of deepserializer/views.py: the relation walker                   *)
(* (build_possible_fields), the view-set registry (_viewsets,              *)
(* __init_subclass__, get_view_set_class, init_router), the query shaping  *)
(* of get_queryset / get_serializer and the deep_create action.            *)
(*                                                                         *)
(* Python strings are sequences of one-character strings, so that          *)
(* concatenation, str.split and str.startswith are computed, not assumed.  *)
(***************************************************************************)
EXTENDS Integers, Sequences, FiniteSets, TLC

\* ------------------------------------------------------------------ bounds
NumModels == 2          \* entity types in the schema
NumThreads == 2         \* requests running get_view_set_class at once
MaxEntries == 2         \* comma-separated entries in exclude and order_by
MaxWriteDepth == 1      \* nesting of the payload given to deep_create
MaxClasses == 2         \* view-set classes created in one run
MaxStack == 2 * NumModels + 2   \* cap on the walker's recursion depth

Models == 1 .. NumModels
None == 0               \* field_relation.related_model of a scalar field

\* ----------------------------------------------------------------- strings
SEP == <<"_", "_">>     \* the "__" of f"{field_name}__{field}"

Range(s) == {s[i] : i \in 1 .. Len(s)}

\* str.startswith
StartsWith(s, p) == Len(p) <= Len(s) /\ SubSeq(s, 1, Len(p)) = p

\* number of "__"-separated segments of a path (field names hold no "_")
RECURSIVE Segments(_)
Segments(s) ==
  IF Len(s) < 2 THEN 1
  ELSE IF SubSeq(s, 1, 2) = SEP THEN 1 + Segments(SubSeq(s, 3, Len(s)))
       ELSE Segments(Tail(s))

\* ------------------------------------------------------------------ schema
\* parent_model._meta.get_fields(): a scalar field "i" (when the schema has
\* scalars) followed by one relation per target the model refers to.
Letter == <<"a", "b", "c", "d", "e">>
RelName(t) == <<Letter[t]>>
ScalarField == [name |-> <<"i">>, related_model |-> None]
RelField(t) == [name |-> RelName(t), related_model |-> t]

RECURSIVE RelFields(_, _)
RelFields(targets, t) ==
  IF t > NumModels THEN <<>>
  ELSE (IF t \in targets THEN <<RelField(t)>> ELSE <<>>) \o RelFields(targets, t + 1)

GetFields(scalars, targets) ==
  (IF scalars THEN <<ScalarField>> ELSE <<>>) \o RelFields(targets, 1)

Schemas ==
  {[m \in Models |-> GetFields(sc, rel[m])] :
     sc \in BOOLEAN, rel \in [Models -> SUBSET Models]}

VARIABLES
  fields,      \* the schema: model -> its get_fields() sequence
  root,        \* the model build_possible_fields is started on
  stack,       \* the walker's call stack, innermost frame last
  result,      \* the set returned by the outermost call
  step         \* what the walker did last

VARIABLES
  viewsets,    \* ReadOnlyDeepViewSet._viewsets: name -> class (its index in classes)
  classes,     \* the view-set classes created so far, in creation order
  router,      \* what router.register has been given: <<prefix, class>>
  returned,    \* name -> the classes get_view_set_class has returned for it
  last,        \* the last registry operation and what it returned
  threads      \* per request thread: where it is in get_view_set_class

VARIABLES
  handler,     \* the view-set class serving the request: _possible_fields,
               \* its serializer's _all_related_paths and Meta.original_depth
  params,      \* request.query_params: key -> value, both strings
  plan         \* what get_queryset / get_serializer handed on

VARIABLES
  storage,     \* the records in the database, as the request's connection sees it
  snapshot,    \* the database as it was when the transaction began
  payload,     \* request.data of deep_create: a nested write graph
  queue,       \* the nodes of the payload still to be written, in order
  response     \* the status deep_create answers with

writeVars == <<storage, snapshot, payload, queue, response>>
queryVars == <<handler, params, plan>>
walkVars == <<fields, root, stack, result, step>>
regVars == <<viewsets, classes, router, returned, last, threads>>
vars == <<walkVars, regVars, queryVars, writeVars>>

\* ------------------------------------------------------------------ walker
\* variants of the exclusion test: one that never excludes, one that only
\* looks at the immediate caller
ExcludedNever(model, excludes) == FALSE
ExcludedLastOnly(model, excludes) ==
  excludes # <<>> /\ model = excludes[Len(excludes)]

\* `(model := field_relation.related_model) not in excludes`, negated
Excluded(model, excludes) == model \in Range(excludes)

\* variant that passes excludes on unchanged
GrowExcludesNot(excludes, parent_model) == excludes

\* `excludes + [parent_model]`
GrowExcludes(excludes, parent_model) == Append(excludes, parent_model)

\* f"{field_name}__{field}" for field in the recursive result
Prefixed(field_name, sub) == {field_name \o SEP \o f : f \in sub}

\* build_possible_fields as one recursive function of the schema
RECURSIVE build_possible_fields(_, _, _)
build_possible_fields(sch, parent_model, excludes) ==
  UNION {
    IF Excluded(f.related_model, excludes) THEN {}
    ELSE {f.name} \cup
         (IF f.related_model # None
            THEN Prefixed(f.name,
                   build_possible_fields(sch, f.related_model,
                                         GrowExcludes(excludes, parent_model)))
            ELSE {})
    : f \in Range(sch[parent_model]) }

\* -------------------------------------------------------------- deep write
\* A node of the write graph: whether its own fields validate, the payloads
\* under its to-one relations and those under its to-many relations.
Node(valid, one, many) == [valid |-> valid, one |-> one, many |-> many]

RECURSIVE Payloads(_)
Payloads(depth) ==
  IF depth = 0 THEN {Node(v, <<>>, <<>>) : v \in BOOLEAN}
  ELSE LET sub == Payloads(depth - 1)
           kids == {<<>>} \cup {<<c>> : c \in sub}
       IN {Node(v, one, many) : v \in BOOLEAN, one \in kids, many \in kids}

\* deep_update_or_create: the order in which the nodes are written. The
\* to-one children go first, then the node, then its to-many children.
RECURSIVE WriteOrder(_, _)
RECURSIVE WriteOrderAll(_, _, _)
WriteOrderAll(nodes, path, rel) ==
  IF nodes = <<>> THEN <<>>
  ELSE WriteOrder(Head(nodes), Append(path, rel))
         \o WriteOrderAll(Tail(nodes), path, rel)
WriteOrder(node, path) ==
  WriteOrderAll(node.one, path, "one")
    \o <<[id |-> path, valid |-> node.valid]>>
    \o WriteOrderAll(node.many, path, "many")

\* variant that asks deep_update_or_create not to raise
RaiseExceptionNot == FALSE

\* deep_create passes raise_exception=True
RaiseException == TRUE

IdleWrite ==
  /\ storage = {}
  /\ snapshot = {}
  /\ payload = Node(TRUE, <<>>, <<>>)
  /\ queue = <<>>
  /\ response = "none"

\* ----------------------------------------------------------- query shaping
ExcludeStr == <<"e", "x", "c", "l", "u", "d", "e">>
DepthStr == <<"d", "e", "p", "t", "h">>
OrderByStr == <<"o", "r", "d", "e", "r", "_", "b", "y">>
Comma == ","
DigitChars == <<"0", "1", "2", "3", "4", "5", "6", "7", "8", "9">>

\* str.split(","): "" gives [""], "a," gives ["a", ""]
RECURSIVE SplitFrom(_, _)
SplitFrom(s, cur) ==
  IF s = <<>> THEN <<cur>>
  ELSE IF Head(s) = Comma THEN <<cur>> \o SplitFrom(Tail(s), <<>>)
       ELSE SplitFrom(Tail(s), Append(cur, Head(s)))
Split(s) == SplitFrom(s, <<>>)

\* ",".join(entries), how a client writes a list parameter
RECURSIVE Join(_)
Join(entries) ==
  IF entries = <<>> THEN <<>>
  ELSE IF Len(entries) = 1 THEN entries[1]
       ELSE entries[1] \o <<Comma>> \o Join(Tail(entries))

\* params.get(key, default)
Get(ps, key, default) == IF key \in DOMAIN ps THEN ps[key] ELSE default

\* int(str): decimal digits only; anything else raises ValueError
IsInt(s) == s # <<>> /\ \A i \in 1 .. Len(s) : s[i] \in Range(DigitChars)
DigitValue(c) == (CHOOSE i \in 1 .. Len(DigitChars) : DigitChars[i] = c) - 1
RECURSIVE IntOf(_)
IntOf(s) ==
  IF s = <<>> THEN 0
  ELSE IntOf(SubSeq(s, 1, Len(s) - 1)) * Len(DigitChars) + DigitValue(s[Len(s)])

\* int(params.get("depth", serializer_class.Meta.original_depth))
DepthFails(ps) == DepthStr \in DOMAIN ps /\ ~IsInt(ps[DepthStr])
DepthOf(h, ps) ==
  IF DepthStr \in DOMAIN ps THEN IntOf(ps[DepthStr]) ELSE h.original_depth

\* set(params.get("exclude", "").split(","))
Excludes(ps) == Range(Split(Get(ps, ExcludeStr, <<>>)))

\* `any(path.startswith(exclude) for exclude in excludes if exclude)`
ExcludedBy(path, excludes) ==
  \E e \in excludes : e # <<>> /\ StartsWith(path, e)

\* the set comprehension of lines 105-109 and 136-140
RelationsPaths(h, ps) ==
  {path \in h.all_related_paths : ~ExcludedBy(path, Excludes(ps))}

\* variant that lets every key through
KeyAllowedAlways(field, possible_fields) == TRUE

\* `field in self._possible_fields`
KeyAllowed(field, possible_fields) == field \in possible_fields

\* {field: value for field, value in params.items() if field in ...}
FilterBy(h, ps) ==
  LET keys == {k \in DOMAIN ps : KeyAllowed(k, h.possible_fields)}
  IN [k \in keys |-> ps[k]]

\* [field for field in params.get("order_by", "").split(",") if field in ...]
OrderBy(h, ps) ==
  LET Known(f) == KeyAllowed(f, h.possible_fields)
  IN SelectSeq(Split(Get(ps, OrderByStr, <<>>)), Known)

\* get_queryset: the arguments of optimize_queryset, then the filter and
\* the ordering applied to the queryset (an empty one is not applied)
get_queryset(h, ps) ==
  IF DepthFails(ps) THEN [op |-> "ValueError"]
  ELSE [op |-> "queryset",
        paths |-> RelationsPaths(h, ps),
        depth |-> DepthOf(h, ps),
        filter_by |-> FilterBy(h, ps),
        order_by |-> OrderBy(h, ps)]

\* get_serializer with a request: the arguments of serializer_class(...)
get_serializer(h, ps) ==
  IF DepthFails(ps) THEN [op |-> "ValueError"]
  ELSE [op |-> "serializer",
        paths |-> RelationsPaths(h, ps),
        depth |-> DepthOf(h, ps)]

\* what requests are made of
PathSets ==
  {{}, {<<"c", "s">>}, {<<"c", "s">>, <<"c", "s">> \o SEP \o <<"a">>, <<"a">>}}
ExcludeEntries == {<<>>, <<"c">>, <<"c", "s">>}
OrderEntries == {<<"i">>, <<"b">>, <<"z">>}
FilterKeys == {<<"i">>, <<"b">> \o SEP \o <<"i">>, <<"z">>}
DepthValues == {<<"1">>, <<"x">>}
Lists(S) == UNION {[1 .. n -> S] : n \in 0 .. MaxEntries}
Optional(key, values) == {<<>>} \cup {key :> v : v \in values}

Requests ==
  {f @@ d @@ e @@ o :
     f \in UNION {[K -> {<<"v">>}] : K \in SUBSET FilterKeys},
     d \in Optional(DepthStr, DepthValues),
     e \in Optional(ExcludeStr, {Join(l) : l \in Lists(ExcludeEntries)}),
     o \in Optional(OrderByStr, {Join(l) : l \in Lists(OrderEntries)})}

NoPlan == [op |-> "none"]

IdleQuery ==
  /\ IdleWrite
  /\ handler = [possible_fields |-> {}, all_related_paths |-> {},
                original_depth |-> 0]
  /\ params = <<>>
  /\ plan = NoPlan

\* ---------------------------------------------------------------- registry
ReadOnlyStr == <<"R", "e", "a", "d", "O", "n", "l", "y">>
ViewSetStr == <<"V", "i", "e", "w", "S", "e", "t">>
EmptyStr == <<>>

\* model.__name__ : Foo, ReadOnlyFoo, Bar, Md, Me
ModelName(m) ==
  CASE m = 1 -> <<"F", "o", "o">>
    [] m = 2 -> ReadOnlyStr \o <<"F", "o", "o">>
    [] m = 3 -> <<"B", "a", "r">>
    [] OTHER -> <<"M", Letter[m]>>

\* the classes get_view_set_class and init_router are called on
Bases == {"ReadOnlyDeepViewSet", "DeepViewSet"}
\* DeepViewSet(ReadOnlyDeepViewSet, ModelViewSet) is the one that writes
Writable(cls) == cls = "DeepViewSet"
\* the use_case attribute a subclass inherits
BaseUseCase(cls) == IF cls = "DeepViewSet" THEN EmptyStr ELSE ReadOnlyStr
UseCases == {EmptyStr, ReadOnlyStr}

\* use_case + model.__name__ + "ViewSet"
ViewSetName(use_case, model) == use_case \o ModelName(model) \o ViewSetStr
AllNames == {ViewSetName(u, m) : u \in UseCases, m \in {1, 2}}

\* a class statement with a queryset: `class X(cls): use_case = ...;
\* queryset = model.objects`
ClassDef(cls, model, use_case, generated) ==
  [writable |-> Writable(cls), use_case |-> use_case, model |-> model,
   generated |-> generated]

\* __init_subclass__ for a class with a queryset: the class is stored under
\* its name, whatever is there, then gets _possible_fields and the default
\* serializer class
init_subclass(reg, sch, c) ==
  LET id == Len(reg.classes) + 1
      obj == [writable |-> c.writable, use_case |-> c.use_case,
              model |-> c.model, generated |-> c.generated,
              possible_fields |-> build_possible_fields(sch, c.model, <<>>),
              serializer_class |-> <<c.model, c.use_case>>]
  IN [viewsets |-> (ViewSetName(c.use_case, c.model) :> id) @@ reg.viewsets,
      classes |-> Append(reg.classes, obj)]

\* variant of the membership test that never finds the name
InRegistryNever(name, vs) == FALSE

\* `view_set_name in cls._viewsets`
InRegistry(name, vs) == name \in DOMAIN vs

\* get_view_set_class, run without interruption: the registry afterwards
\* and the class returned
get_view_set_class(reg, sch, cls, model, use_case) ==
  LET name == ViewSetName(use_case, model)
      create == ~InRegistry(name, reg.viewsets)
      after == IF create
                 THEN init_subclass(reg, sch, ClassDef(cls, model, use_case, TRUE))
                 ELSE reg
  IN [reg |-> after, name |-> name, created |-> create,
      ret |-> after.viewsets[name]]

\* the loop of init_router: one get_view_set_class(model) per model, with
\* the default use_case=""; the calls' outcomes in order
RECURSIVE init_router(_, _, _, _)
init_router(reg, sch, cls, models) ==
  IF models = <<>> THEN <<>>
  ELSE LET r == get_view_set_class(reg, sch, cls, Head(models), EmptyStr)
       IN <<r>> \o init_router(r.reg, sch, cls, Tail(models))

Reg == [viewsets |-> viewsets, classes |-> classes]

\* bookkeeping: the classes a sequence of get_view_set_class outcomes
\* returned for a name
Returns(rs, name) == {rs[i].ret : i \in {j \in 1 .. Len(rs) : rs[j].name = name}}

Record(rs) ==
  returned' = [n \in AllNames |-> returned[n] \cup Returns(rs, n)]

\* the name a class was stored under when it was created
NameOf(c) == ViewSetName(c.use_case, c.model)
\* the classes get_view_set_class has created for a name
Built(name) ==
  {i \in 1 .. Len(classes) : classes[i].generated /\ NameOf(classes[i]) = name}

\* the schemas the registry is run on: no relations, and a ring in
\* which every model refers to the next one
RegistrySchemas ==
  {[m \in Models |-> GetFields(TRUE, {})],
   [m \in Models |-> GetFields(TRUE, {(m % NumModels) + 1})]}
\* the models view-sets are requested for: Foo and ReadOnlyFoo
RegModels == {1, 2}

Threads == 1 .. NumThreads
IdleThread == [pc |-> "idle"]

IdleRegistry ==
  /\ viewsets = <<>>
  /\ classes = <<>>
  /\ router = {}
  /\ returned = [n \in AllNames |-> {}]
  /\ last = [op |-> "none"]
  /\ threads = [t \in Threads |-> IdleThread]

IdleWalk ==
  /\ root = 1
  /\ stack = <<>>
  /\ result = {}
  /\ step = "idle"

InitRegistry ==
  /\ IdleRegistry
  /\ IdleQuery
  /\ IdleWalk
  /\ fields \in RegistrySchemas

\* a call cls.get_view_set_class(model, use_case)
GetViewSetClass(cls, model, use_case) ==
  LET r == get_view_set_class(Reg, fields, cls, model, use_case)
  IN /\ Len(r.reg.classes) <= MaxClasses
     /\ viewsets' = r.reg.viewsets
     /\ classes' = r.reg.classes
     /\ Record(<<r>>)
     /\ last' = [op |-> "get", name |-> r.name, ret |-> r.ret,
                 created |-> r.created]
     /\ UNCHANGED <<router, threads, walkVars, queryVars, writeVars>>

\* a call cls.init_router(router, models)
InitRouter(cls, models) ==
  LET rs == init_router(Reg, fields, cls, models)
      end == rs[Len(rs)].reg
  IN /\ Len(end.classes) <= MaxClasses
     /\ viewsets' = end.viewsets
     /\ classes' = end.classes
     /\ router' = router \cup
          {<<ModelName(models[i]), rs[i].ret>> : i \in 1 .. Len(models)}
     /\ Record(rs)
     /\ last' = [op |-> "router", name |-> rs[Len(rs)].name,
                 ret |-> rs[Len(rs)].ret,
                 created |-> \E i \in 1 .. Len(rs) : rs[i].created]
     /\ UNCHANGED <<threads, walkVars, queryVars, writeVars>>

\* a hand-written view-set class with a queryset is defined (module
\* import); it inherits use_case from cls
DefineViewSet(cls, model) ==
  LET use_case == BaseUseCase(cls)
      after == init_subclass(Reg, fields, ClassDef(cls, model, use_case, FALSE))
      name == ViewSetName(use_case, model)
  IN /\ Len(after.classes) <= MaxClasses
     /\ viewsets' = after.viewsets
     /\ classes' = after.classes
     /\ last' = [op |-> "define", name |-> name, ret |-> after.viewsets[name],
                 created |-> TRUE]
     /\ UNCHANGED <<router, returned, threads, walkVars, queryVars, writeVars>>

\* a subclass of a registered view-set is defined: it inherits queryset
\* and use_case, so __init_subclass__ stores it under the same name
DefineSubclass(name) ==
  LET parent == classes[viewsets[name]]
      after == init_subclass(Reg, fields,
                 [writable |-> parent.writable, use_case |-> parent.use_case,
                  model |-> parent.model, generated |-> FALSE])
      own == ViewSetName(parent.use_case, parent.model)
  IN /\ Len(after.classes) <= MaxClasses
     /\ viewsets' = after.viewsets
     /\ classes' = after.classes
     /\ last' = [op |-> "define", name |-> own, ret |-> after.viewsets[own],
                 created |-> TRUE]
     /\ UNCHANGED <<router, returned, threads, walkVars, queryVars, writeVars>>

\* the lists init_router is given: some of the models, each once
ModelLists ==
  {ms \in UNION {[1 .. n -> RegModels] : n \in 1 .. Cardinality(RegModels)} :
     \A i, j \in 1 .. Len(ms) : ms[i] = ms[j] => i = j}

NextAuto ==
  \/ \E cls \in Bases, m \in RegModels, u \in UseCases : GetViewSetClass(cls, m, u)
  \/ \E cls \in Bases, ms \in ModelLists : InitRouter(cls, ms)

NextRegistry ==
  \/ NextAuto
  \/ \E cls \in Bases, m \in RegModels : DefineViewSet(cls, m)
  \/ \E name \in DOMAIN viewsets : DefineSubclass(name)

\* get_view_set_class and init_router only
SpecAuto == InitRegistry /\ [][NextAuto]_vars
\* with hand-written view-set classes as well
SpecRegistry == InitRegistry /\ [][NextRegistry]_vars

\* ------------------------------------------- get_view_set_class, threaded
\* Request threads share the class attribute _viewsets; nothing in
\* get_view_set_class or __init_subclass__ takes a lock, so threads switch
\* between its statements.

\* line 165: the call is entered and view_set_name computed
ThreadCall(t, cls, model, use_case) ==
  /\ threads[t].pc = "idle"
  /\ threads' = [threads EXCEPT ![t] =
       [pc |-> "check", cls |-> cls, model |-> model, use_case |-> use_case,
        name |-> ViewSetName(use_case, model), own |-> 0]]
  /\ UNCHANGED <<viewsets, classes, router, returned, last, walkVars, queryVars, writeVars>>

\* line 166: `if view_set_name not in cls._viewsets`
ThreadCheck(t) ==
  /\ threads[t].pc = "check"
  /\ threads' = [threads EXCEPT ![t].pc =
       IF InRegistry(threads[t].name, viewsets) THEN "return" ELSE "class"]
  /\ UNCHANGED <<viewsets, classes, router, returned, last, walkVars, queryVars, writeVars>>

\* lines 169-171 and 42: the class is created and stored under its name;
\* it has no _possible_fields and no serializer class yet
ThreadCreate(t) ==
  /\ threads[t].pc = "class"
  /\ Len(classes) < MaxClasses
  /\ LET c == ClassDef(threads[t].cls, threads[t].model, threads[t].use_case, TRUE)
         obj == [writable |-> c.writable, use_case |-> c.use_case,
                 model |-> c.model, generated |-> TRUE,
                 possible_fields |-> {}, serializer_class |-> <<>>]
     IN /\ classes' = Append(classes, obj)
        /\ viewsets' = (NameOf(c) :> Len(classes) + 1) @@ viewsets
        /\ threads' = [threads EXCEPT ![t].pc = "fields",
                                      ![t].own = Len(classes) + 1]
  /\ UNCHANGED <<router, returned, last, walkVars, queryVars, writeVars>>

\* lines 43-45: the new class gets _possible_fields and its serializer class
ThreadFields(t) ==
  /\ threads[t].pc = "fields"
  /\ LET id == threads[t].own
     IN classes' = [classes EXCEPT ![id] =
          [@ EXCEPT !.possible_fields =
                      build_possible_fields(fields, classes[id].model, <<>>),
                    !.serializer_class = <<classes[id].model, classes[id].use_case>>]]
  /\ threads' = [threads EXCEPT ![t].pc = "return"]
  /\ UNCHANGED <<viewsets, router, returned, last, walkVars, queryVars, writeVars>>

\* line 180: `return cls._viewsets[view_set_name]`
ThreadReturn(t) ==
  /\ threads[t].pc = "return"
  /\ LET n == threads[t].name
     IN /\ returned' = [returned EXCEPT ![n] = @ \cup {viewsets[n]}]
        /\ last' = [op |-> "get", name |-> n, ret |-> viewsets[n],
                    created |-> threads[t].own # 0]
  /\ threads' = [threads EXCEPT ![t] = IdleThread]
  /\ UNCHANGED <<viewsets, classes, router, walkVars, queryVars, writeVars>>

NextThreads ==
  \E t \in Threads :
    \/ \E cls \in Bases, m \in RegModels, u \in UseCases : ThreadCall(t, cls, m, u)
    \/ ThreadCheck(t)
    \/ ThreadCreate(t)
    \/ ThreadFields(t)
    \/ ThreadReturn(t)

\* concurrent requests, each calling get_view_set_class
SpecThreads == InitRegistry /\ [][NextThreads]_vars

\* ---------------------------------------------------------------- requests
InitQuery ==
  /\ IdleRegistry
  /\ IdleWalk
  /\ IdleWrite
  /\ fields \in RegistrySchemas
  /\ \E paths \in PathSets, d \in 0 .. 1 :
       handler = [possible_fields |-> build_possible_fields(fields, 1, <<>>),
                  all_related_paths |-> paths,
                  original_depth |-> d]
  /\ params \in Requests
  /\ plan = NoPlan

GetQueryset ==
  /\ plan = NoPlan
  /\ plan' = get_queryset(handler, params)
  /\ UNCHANGED <<handler, params, fields, root, stack, result, step, regVars, writeVars>>

GetSerializer ==
  /\ plan = NoPlan
  /\ plan' = get_serializer(handler, params)
  /\ UNCHANGED <<handler, params, fields, root, stack, result, step, regVars, writeVars>>

\* get_serializer on a view without request: the inherited get_serializer
GetSerializerNoRequest ==
  /\ plan = NoPlan
  /\ plan' = [op |-> "super"]
  /\ UNCHANGED <<handler, params, fields, root, stack, result, step, regVars, writeVars>>

NextQuery == GetQueryset \/ GetSerializer \/ GetSerializerNoRequest

SpecQuery == InitQuery /\ [][NextQuery]_vars

\* -------------------------------------------------------------- deep_create
InitWrite ==
  /\ IdleRegistry
  /\ IdleWalk
  /\ fields \in RegistrySchemas
  /\ handler = [possible_fields |-> {}, all_related_paths |-> {},
                original_depth |-> 0]
  /\ params \in Optional(DepthStr, DepthValues)
  /\ plan = NoPlan
  /\ storage \in {{}, {<<"old">>}}
  /\ snapshot = storage
  /\ payload \in Payloads(MaxWriteDepth)
  /\ queue = <<>>
  /\ response = "none"

\* POST deep_create: get_serializer() is built for the request, which
\* fails on a depth that is no integer; deep_update_or_create then opens
\* its transaction
DeepCreate ==
  /\ response = "none"
  /\ plan' = get_serializer(handler, params)
  /\ IF plan'.op = "ValueError"
       THEN /\ response' = "500 ValueError"
            /\ UNCHANGED <<snapshot, queue>>
       ELSE /\ snapshot' = storage
            /\ queue' = WriteOrder(payload, <<>>)
            /\ response' = "writing"
  /\ UNCHANGED <<storage, payload, handler, params, walkVars, regVars>>

\* a node that validates is created or updated
WriteNode ==
  /\ response = "writing"
  /\ queue # <<>>
  /\ Head(queue).valid
  /\ storage' = storage \cup {Head(queue).id}
  /\ queue' = Tail(queue)
  /\ UNCHANGED <<snapshot, payload, response, queryVars, walkVars, regVars>>

\* a node that does not validate: with raise_exception the ValidationError
\* leaves the transaction, which is rolled back, and the request fails;
\* without, the node is left out and the write goes on
WriteInvalid ==
  /\ response = "writing"
  /\ queue # <<>>
  /\ ~Head(queue).valid
  /\ IF RaiseException
       THEN /\ storage' = snapshot
            /\ queue' = <<>>
            /\ response' = "400 ValidationError"
       ELSE /\ queue' = Tail(queue)
            /\ UNCHANGED <<storage, response>>
  /\ UNCHANGED <<snapshot, payload, queryVars, walkVars, regVars>>

\* the transaction commits and deep_create answers HTTP_201_CREATED
WriteCommit ==
  /\ response = "writing"
  /\ queue = <<>>
  /\ response' = "201 Created"
  /\ UNCHANGED <<storage, snapshot, payload, queue, queryVars, walkVars, regVars>>

NextWrite == DeepCreate \/ WriteNode \/ WriteInvalid \/ WriteCommit

SpecWrite == InitWrite /\ [][NextWrite]_vars

\* The same function, one loop iteration or call/return per step.
Frame(model, excludes) ==
  [model |-> model, excludes |-> excludes, idx |-> 1, acc |-> {}]

Top == stack[Len(stack)]
TopField == fields[Top.model][Top.idx]
InLoop == stack # <<>> /\ Top.idx <= Len(fields[Top.model])
SetTop(f) == [stack EXCEPT ![Len(stack)] = f]

InitWalk ==
  /\ IdleRegistry
  /\ IdleQuery
  /\ fields \in Schemas
  /\ root \in Models
  /\ stack = <<Frame(root, <<>>)>>
  /\ result = {}
  /\ step = "call"

\* the relation's target is in excludes: nothing is added
WalkSkip ==
  /\ InLoop
  /\ Excluded(TopField.related_model, Top.excludes)
  /\ stack' = SetTop([Top EXCEPT !.idx = @ + 1])
  /\ step' = "skip"
  /\ UNCHANGED <<fields, root, result, regVars, queryVars, writeVars>>

\* a field without related model: only its name is added
WalkScalar ==
  /\ InLoop
  /\ ~Excluded(TopField.related_model, Top.excludes)
  /\ TopField.related_model = None
  /\ stack' = SetTop([Top EXCEPT !.idx = @ + 1, !.acc = @ \cup {TopField.name}])
  /\ step' = "scalar"
  /\ UNCHANGED <<fields, root, result, regVars, queryVars, writeVars>>

\* a relation to a model not in excludes: its name is added and the
\* recursive call is entered
WalkDescend ==
  /\ InLoop
  /\ ~Excluded(TopField.related_model, Top.excludes)
  /\ TopField.related_model # None
  /\ Len(stack) < MaxStack
  /\ stack' = Append(SetTop([Top EXCEPT !.acc = @ \cup {TopField.name}]),
                     Frame(TopField.related_model,
                           GrowExcludes(Top.excludes, Top.model)))
  /\ step' = "call"
  /\ UNCHANGED <<fields, root, result, regVars, queryVars, writeVars>>

\* `return possible_fields`: the caller prefixes what it gets
WalkReturn ==
  /\ stack # <<>>
  /\ ~InLoop
  /\ IF Len(stack) = 1
       THEN /\ result' = Top.acc
            /\ stack' = <<>>
       ELSE LET caller == stack[Len(stack) - 1]
                name == fields[caller.model][caller.idx].name
            IN /\ stack' = [SubSeq(stack, 1, Len(stack) - 1) EXCEPT
                              ![Len(stack) - 1] =
                                [caller EXCEPT !.idx = @ + 1,
                                               !.acc = @ \cup Prefixed(name, Top.acc)]]
               /\ UNCHANGED result
  /\ step' = "return"
  /\ UNCHANGED <<fields, root, regVars, queryVars, writeVars>>

walkDone == stack = <<>>

NextWalk == WalkSkip \/ WalkScalar \/ WalkDescend \/ WalkReturn

\* build_possible_fields is straight-line code on one thread: a call that
\* can take a step takes it
SpecWalk == InitWalk /\ [][NextWalk]_vars /\ WF_vars(NextWalk)

\* the step machine computes the recursive function
WalkAgrees == walkDone => result = build_possible_fields(fields, root, <<>>)

\* ----------------------------------------------------------- write claims
RECURSIVE HasInvalid(_)
HasInvalid(node) ==
  \/ ~node.valid
  \/ \E i \in 1 .. Len(node.one) : HasInvalid(node.one[i])
  \/ \E i \in 1 .. Len(node.many) : HasInvalid(node.many[i])

ExcludedByWholeSegments(path, excludes) ==
  \E e \in excludes : e # <<>> /\ (path = e \/ StartsWith(path, e \o SEP))

\* C4 as stated: the paths get_queryset and get_serializer hand on are the
\* related paths that no non-empty exclude entry equals or precedes as a
\* whole-segment prefix.
ExclusionByWholeSegments ==
  plan.op \in {"queryset", "serializer"} =>
    plan.paths = {path \in handler.all_related_paths :
                    ~ExcludedByWholeSegments(path, Excludes(params))}

\* C5: get_queryset filters and orders by members of _possible_fields
\* only; every request key in the set is applied with its value, the
\* known order_by entries keep their order, the other keys and entries are
\* dropped, and the only error is a depth that is not an integer.
OnlyLegalKeysApplied ==
  LET possible == handler.possible_fields
      IsPossible(f) == f \in possible
      wanted == Split(Get(params, OrderByStr, <<>>))
  IN /\ plan.op = "ValueError" =>
          (DepthStr \in DOMAIN params /\ ~IsInt(params[DepthStr]))
     /\ plan.op = "queryset" =>
          /\ DOMAIN plan.filter_by \subseteq possible
          /\ \A k \in DOMAIN plan.filter_by :
               k \in DOMAIN params /\ plan.filter_by[k] = params[k]
          /\ \A k \in DOMAIN params : k \in possible => k \in DOMAIN plan.filter_by
          /\ plan.order_by = SelectSeq(wanted, IsPossible)

\* C5 witness: a request with an unknown filter key and an unknown
\* order_by entry has been shaped; a known key and a known entry were kept.
OnlyLegalKeysWitness ==
  /\ plan.op = "queryset"
  /\ <<"z">> \in DOMAIN params
  /\ DOMAIN plan.filter_by # {}
  /\ plan.order_by # <<>>
  /\ Len(plan.order_by) < Len(Split(Get(params, OrderByStr, <<>>)))

\* -------------------------------------------------------- registry claims
\* C1: under get_view_set_class and init_router calls, every call for a
\* name returns one and the same class, the one registered under the name,
\* and exactly one class was ever generated for that name.
RegistryIdempotent ==
  \A n \in AllNames :
    returned[n] # {} =>
      /\ n \in DOMAIN viewsets
      /\ returned[n] = {viewsets[n]}
      /\ Built(n) = returned[n]

\* C1 witness: a get_view_set_class call for a name that had been asked
\* for before returned without creating a class.
RegistryIdempotentWitness ==
  /\ last.op = "get"
  /\ ~last.created
  /\ returned[last.name] = {last.ret}
  /\ Len(classes) = MaxClasses

IsManual(n) == n \in DOMAIN viewsets /\ ~classes[viewsets[n]].generated

\* every class with a queryset was stored under its name when created
Stored(name) == {i \in 1 .. Len(classes) : NameOf(classes[i]) = name}

\* C2 as stated: with concurrent first calls for a name, one class only is
\* ever stored under the name and every caller gets that class.
OneClassPerNameThreaded ==
  \A n \in AllNames :
    /\ Cardinality(Stored(n)) <= 1
    /\ Cardinality(returned[n]) <= 1

\* C3 as stated: once a hand-written class is registered under a name, the
\* entry for that name never changes, whatever is called or defined later.
ManualNeverOverwritten ==
  [][\A n \in AllNames : IsManual(n) => viewsets'[n] = viewsets[n]]_vars

\* C3 amended: get_view_set_class and init_router never replace a
\* hand-written class and return it for its name; only the definition of
\* another class with the same name replaces it.
ManualOverwrittenOnlyByDefinition ==
  [][\A n \in AllNames :
       IsManual(n) =>
         /\ viewsets'[n] # viewsets[n] => (last'.op = "define" /\ last'.name = n)
         /\ (last'.op = "get" /\ last'.name = n) => last'.ret = viewsets[n]]_vars

\* C3 witness: get_view_set_class has just returned a hand-written class.
ManualWitness ==
  /\ last.op = "get"
  /\ IsManual(last.name)
  /\ last.ret = viewsets[last.name]

\* C8 as stated: a class registered under the empty use case is a
\* read-write one, and init_router on the read-only class registers
\* nothing under the empty use case.
EmptyUseCaseIsReadWrite ==
  \A m \in RegModels :
    LET n == ViewSetName(EmptyStr, m)
    IN n \in DOMAIN viewsets => classes[viewsets[n]].writable

\* ---------------------------------------------------------- walker claims
CompleteSchema ==
  \A m \in Models : \A t \in Models : RelField(t) \in Range(fields[m])

\* the recursion cap of the model never stops a call the code would make
CapNotReached ==
  (InLoop /\ TopField.related_model # None
     /\ ~Excluded(TopField.related_model, Top.excludes)) => Len(stack) < MaxStack

\* C6: started with an empty excludes list, build_possible_fields returns
\* on every schema, self-references and mutual cycles included; every
\* recursive call is made with an excludes list one longer than its
\* caller's, and never on a model in the caller's excludes.
WalkerTerminates ==
  /\ <>walkDone
  /\ [][Len(stack') > Len(stack) =>
         /\ Len(stack'[Len(stack')].excludes) = Len(Top.excludes) + 1
         /\ stack'[Len(stack')].model \notin Range(Top.excludes)]_vars

\* C6 witness: the walk of a schema in which every model refers to itself
\* and to every other model has returned.
WalkerTerminatesWitness == walkDone /\ CompleteSchema /\ result # {}

\* segments, counted from the root, of the paths held by frame i
RootedSegments(i) == {(i - 1) + Segments(p) : p \in stack[i].acc}
EmittedSegments ==
  UNION {RootedSegments(i) : i \in 1 .. Len(stack)}
    \cup {Segments(p) : p \in result}

\* C7 as stated: every returned path has at most as many segments as
\* there are entity types.
PathLengthAtMostModels ==
  walkDone => \A p \in result : Segments(p) <= NumModels

\* C7 amended: a model may follow itself once on a path, so every path
\* emitted at any depth, and every returned path, has at most twice as
\* many segments as there are entity types.
PathLengthAtMostTwiceModels ==
  \A n \in EmittedSegments : n <= 2 * NumModels

\* C7 witness: a returned path of exactly 2 * NumModels segments.
PathLengthWitness ==
  walkDone /\ \E p \in result : Segments(p) = 2 * NumModels

\* the fields of frame f whose target is in f's excludes
BackRefs(f) ==
  {g \in Range(fields[f.model]) : g.related_model \in Range(f.excludes)}

\* C10 as stated: when a call has gone through its fields, the name of
\* every relation whose target is in excludes is in its result.
BackRefNameEmitted ==
  \A i \in 1 .. Len(stack) :
    stack[i].idx > Len(fields[stack[i].model]) =>
      \A g \in BackRefs(stack[i]) : g.name \in stack[i].acc

\* C10 amended: a relation whose target is in excludes contributes
\* nothing to the call's result, neither its name nor a path through it.
BackRefNotEmitted ==
  \A i \in 1 .. Len(stack) :
    \A g \in BackRefs(stack[i]) :
      /\ g.name \notin stack[i].acc
      /\ \A p \in stack[i].acc : ~StartsWith(p, g.name \o SEP)

\* C10 witness: the walker has just passed over such a relation, in a call
\* that did emit other fields.
BackRefWitness ==
  /\ step = "skip"
  /\ BackRefs(Top) # {}
  /\ Top.acc # {}
====
